---- MODULE Spec2Model ----
(***************************************************************************)
(* Model of the EKF estimation core of src/ekf.py: the generic predict /   *)
(* update engine (class EKF), the line-based localization filter (class    *)
(* Localization_EKF) with its nearest-line data association, and the SLAM  *)
(* filter (class SLAM_EKF).                                                *)
(*                                                                         *)
(* Numbers are exact rationals <<n, d>> (d > 0, lowest terms), so every    *)
(* matrix product, inverse and comparison of the code is computed, not     *)
(* assumed.  Floating-point rounding is outside the model.                 *)
(***************************************************************************)
EXTENDS Integers, Sequences, FiniteSets, TLC

----------------------------------------------------------------------------
(* Rational arithmetic *)

Abs(n) == IF n < 0 THEN -n ELSE n

RECURSIVE Gcd(_, _)
Gcd(a, b) == IF b = 0 THEN a ELSE Gcd(b, a % b)

\* the rational n/d in lowest terms with a positive denominator
Rat(n, d) ==
    LET s == IF d < 0 THEN -1 ELSE 1
        k == Gcd(Abs(n), Abs(d))
    IN  <<(s * n) \div k, (s * d) \div k>>

RInt(n)     == <<n, 1>>
Zero       == RInt(0)
One        == RInt(1)
RSign(a)   == IF a[1] < 0 THEN -1 ELSE IF a[1] = 0 THEN 0 ELSE 1
\* sums and products cancel common factors before they multiply
RAdd(a, b) ==
    LET k == Gcd(a[2], b[2])
    IN  Rat(a[1] * (b[2] \div k) + b[1] * (a[2] \div k), (a[2] \div k) * b[2])
RNeg(a)    == <<-a[1], a[2]>>
RSub(a, b) == RAdd(a, RNeg(b))
RMulCancel(a, b, k1, k2) ==
    Rat((a[1] \div k1) * (b[1] \div k2), (a[2] \div k2) * (b[2] \div k1))
RMul(a, b) ==
    IF a[1] = 0 \/ b[1] = 0 THEN <<0, 1>>
    ELSE RMulCancel(a, b, Gcd(Abs(a[1]), b[2]), Gcd(Abs(b[1]), a[2]))
\* 1/a; a is never zero where the code divides
RInv(a)    == IF a[1] < 0 THEN <<-a[2], -a[1]>> ELSE <<a[2] \div RSign(a), a[1]>>
RDiv(a, b) == RMul(a, RInv(b))
RLt(a, b)  == RSign(RSub(a, b)) < 0
RAbs(a)    == <<Abs(a[1]), a[2]>>
RFloor(a)  == a[1] \div a[2]

----------------------------------------------------------------------------
(* Vectors (sequences of rationals) and matrices (sequences of rows) *)

Rows(A) == Len(A)
Cols(A) == IF Len(A) = 0 THEN 0 ELSE Len(A[1])

RECURSIVE SumTo(_, _)
\* f[1] + ... + f[n] for a sequence f of rationals
SumTo(f, n) == IF n = 0 THEN Zero ELSE RAdd(SumTo(f, n - 1), f[n])

\* a sequence / a matrix built entry by entry (and evaluated once)
Vec(n, F(_))       == [k \in 1..n |-> F(k)] \o <<>>
Mat(n, m, F(_, _)) == Vec(n, LAMBDA i : Vec(m, LAMBDA j : F(i, j)))

Dot(a, b)       == SumTo(Vec(Len(a), LAMBDA k : RMul(a[k], b[k])), Len(a))
VecAdd(a, b)    == Vec(Len(a), LAMBDA k : RAdd(a[k], b[k]))
VecSub(a, b)    == Vec(Len(a), LAMBDA k : RSub(a[k], b[k]))
VecNeg(a)       == Vec(Len(a), LAMBDA k : RNeg(a[k]))
Transpose(A)    == Mat(Cols(A), Rows(A), LAMBDA j, i : A[i][j])
Column(A, j)    == Vec(Rows(A), LAMBDA i : A[i][j])
MatVec(A, v)    == Vec(Rows(A), LAMBDA i : Dot(A[i], v))
MatMul(A, B)    == LET Bt == Transpose(B)
                   IN  Mat(Rows(A), Cols(B), LAMBDA i, j : Dot(A[i], Bt[j]))
MatAdd(A, B)    == Mat(Rows(A), Cols(A), LAMBDA i, j : RAdd(A[i][j], B[i][j]))
MatSub(A, B)    == Mat(Rows(A), Cols(A), LAMBDA i, j : RSub(A[i][j], B[i][j]))
Scale(c, A)     == Mat(Rows(A), Cols(A), LAMBDA i, j : RMul(c, A[i][j]))
Eye(n)          == Mat(n, n, LAMBDA i, j : IF i = j THEN One ELSE Zero)
ZeroMat(n, m)   == Mat(n, m, LAMBDA i, j : Zero)
IntVec(v)       == Vec(Len(v), LAMBDA k : RInt(v[k]))
IntMat(A)       == Vec(Len(A), LAMBDA i : IntVec(A[i]))
\* np.matmul(A, B) raises ValueError unless the inner dimensions agree
Conformable(A, B) == Cols(A) = Rows(B)

\* Gauss-Jordan step on the augmented matrix M = [A | I] for column c
RECURSIVE GaussJordan(_, _, _)
GaussJordan(M, n, c) ==
    IF c > n THEN [singular |-> FALSE, m |-> M]
    ELSE LET cand == {p \in c..n : M[p][c] # Zero}
         IN  IF cand = {} THEN [singular |-> TRUE, m |-> M]
             ELSE LET p   == CHOOSE q \in cand : \A q2 \in cand : q <= q2
                      Sw  == Vec(n, LAMBDA i : IF i = c THEN M[p] ELSE IF i = p THEN M[c] ELSE M[i])
                      piv == Sw[c][c]
                      Rc  == Vec(2 * n, LAMBDA j : RDiv(Sw[c][j], piv))
                      El  == Vec(n, LAMBDA i :
                                IF i = c THEN Rc
                                ELSE Vec(2 * n, LAMBDA j : RSub(Sw[i][j], RMul(Sw[i][c], Rc[j]))))
                  IN  GaussJordan(El, n, c + 1)

\* np.linalg.inv: the inverse, or LinAlgError("Singular matrix")
Inv(A) ==
    LET n  == Rows(A)
        M  == Mat(n, 2 * n, LAMBDA i, j :
                 IF j <= n THEN A[i][j] ELSE IF j - n = i THEN One ELSE Zero)
        gj == GaussJordan(M, n, 1)
    IN  [singular |-> gj.singular,
         m |-> Mat(n, n, LAMBDA i, j : gj.m[i][j + n])]

----------------------------------------------------------------------------
(* numpy's cos and sin.  They are transcendental, so the model evaluates   *)
(* them by linear interpolation through their zeros and extrema, with pi   *)
(* taken as 3: exact rational values, periodic, bounded by 1.              *)

Pi    == RInt(3)
TwoPi == RAdd(Pi, Pi)
\* a mod m for rationals, as Python's % with a positive modulus: in [0, m)
RMod(a, m) == RSub(a, RMul(RInt(RFloor(RDiv(a, m))), m))

Cos(t) ==
    LET r == RMod(t, TwoPi)
    IN  IF RLt(Pi, r) THEN RSub(RDiv(RMul(RInt(2), r), Pi), RInt(3))
        ELSE RSub(One, RDiv(RMul(RInt(2), r), Pi))
Sin(t) == Cos(RSub(t, RDiv(Pi, RInt(2))))

\* ExtractLines.normalize_line_parameters(h): a line (alpha, r) brought to
\* r >= 0 and alpha in [-pi, pi); flipped tells that r changed sign
normalize_line_parameters(h) ==
    LET flipped == RLt(h[2], Zero)
        alpha   == IF flipped THEN RAdd(h[1], Pi) ELSE h[1]
        r       == IF flipped THEN RNeg(h[2]) ELSE h[2]
    IN  [flipped |-> flipped,
         h |-> <<RSub(RMod(RAdd(alpha, Pi), TwoPi), Pi), r>>]

----------------------------------------------------------------------------
(* class Localization_EKF.  self is the filter object: a record with the   *)
(* fields x, P, Q, map_lines, tf_base_to_camera and g.  map_lines and rawZ *)
(* (2xJ and 2xI arrays in the code) are sequences of their columns.        *)

\* abs(om) < 1e-10, computed without forming 10^10
BelowEps(om) == Abs(om[1]) <= ((om[2] - 1) \div 100000) \div 100000

\* Localization_EKF.transition_model(u, dt): (g, Gx, Gu); branch tells which
\* arm of the if computed them
Loc_transition_model(self, u, dt) ==
    LET V    == u[1]
        om   == u[2]
        px   == self.x[1]
        py   == self.x[2]
        th   == self.x[3]
        th_n == RAdd(th, RMul(om, dt))
        Vom  == RDiv(V, om)
        Vom2 == RDiv(V, RMul(om, om))
        dS   == RSub(Sin(th_n), Sin(th))
        dC   == RSub(Cos(th_n), Cos(th))
    IN  IF BelowEps(om)
        THEN [branch |-> "straight",
              g  |-> <<RAdd(px, RMul(RMul(V, Cos(th)), dt)),
                       RAdd(py, RMul(RMul(V, Sin(th)), dt)),
                       th_n>>,
              Gx |-> <<<<One, Zero, RMul(RMul(RNeg(V), Sin(th)), dt)>>,
                       <<Zero, One, RMul(RMul(V, Cos(th)), dt)>>,
                       <<Zero, Zero, One>>>>,
              Gu |-> <<<<RMul(Cos(th), dt), Zero>>,
                       <<RMul(Sin(th), dt), Zero>>,
                       <<Zero, dt>>>>]
        ELSE [branch |-> "curved",
              g  |-> <<RAdd(px, RMul(Vom, dS)),
                       RSub(py, RMul(Vom, dC)),
                       th_n>>,
              Gx |-> <<<<One, Zero, RMul(Vom, dC)>>,
                       <<Zero, One, RMul(Vom, dS)>>,
                       <<Zero, Zero, One>>>>,
              Gu |-> <<<<RMul(RDiv(One, om), dS),
                         RAdd(RMul(RNeg(Vom2), dS), RMul(RMul(Vom, Cos(th_n)), dt))>>,
                       <<RMul(RNeg(RDiv(One, om)), dC),
                         RAdd(RMul(Vom2, dC), RMul(RMul(Vom, Sin(th_n)), dt))>>,
                       <<Zero, dt>>>>]

\* Localization_EKF.map_line_to_predicted_measurement(m): (h, Hx)
Loc_map_line_to_predicted_measurement(self, m) ==
    LET alpha == m[1]
        r     == m[2]
        px    == self.x[1]
        py    == self.x[2]
        th    == self.x[3]
        x_c   == self.tf_base_to_camera[1]
        y_c   == self.tf_base_to_camera[2]
        th_c  == self.tf_base_to_camera[3]
        ath   == RSub(alpha, th)
        h0    == <<RSub(RSub(alpha, th), th_c),
                   RSub(RSub(r, RAdd(RMul(px, Cos(alpha)), RMul(py, Sin(alpha)))),
                        RAdd(RMul(x_c, Cos(ath)), RMul(y_c, Sin(ath))))>>
        Hx0   == <<<<Zero, Zero, RNeg(One)>>,
                   <<RNeg(Cos(alpha)), RNeg(Sin(alpha)),
                     RAdd(RMul(RNeg(x_c), Sin(ath)), RMul(y_c, Cos(ath)))>>>>
        nrm   == normalize_line_parameters(h0)
    IN  [h  |-> nrm.h,
         Hx |-> IF nrm.flipped
                THEN <<Hx0[1], VecNeg(Hx0[2])>>
                ELSE Hx0]

\* lines 184-186 for one map line, given its prediction pm = (h_ij, Hx_j) and
\* inv = np.linalg.inv(S_ij); raised when inv raised LinAlgError
Loc_mahalanobis(v_ij, Hx_j, inv) ==
    [raised |-> inv.singular,
     d  |-> IF inv.singular THEN Zero ELSE Dot(v_ij, MatVec(inv.m, v_ij)),
     v  |-> v_ij,
     Hx |-> Hx_j]

Loc_innovation(self, z_i, R_i, pm) ==
    Loc_mahalanobis(VecSub(z_i, pm.h), pm.Hx,
                    Inv(MatAdd(MatMul(pm.Hx, MatMul(self.P, Transpose(pm.Hx))), R_i)))

\* lines 181-186: the squared Mahalanobis distance d_ij of observation
\* (z_i, R_i) to map line m, with v_ij and Hx_j
Loc_distance(self, z_i, R_i, m) ==
    Loc_innovation(self, z_i, R_i, Loc_map_line_to_predicted_measurement(self, m))

\* mutant: d_ij <= d_min, which lets a later map line replace an equally close one
Loc_closer_le(d_ij, best) == best.inf \/ ~RLt(best.d_min, d_ij)

\* d_ij < d_min, where d_min is float("inf") until a first distance is kept
Loc_closer(d_ij, best) == best.inf \/ RLt(d_ij, best.d_min)

\* lines 189-193: the loop variables after map line j, given its distance dj;
\* calls counts the calls of map_line_to_predicted_measurement
Loc_keep_min(R_i, j, best, dj) ==
    IF dj.raised THEN [best EXCEPT !.raised = TRUE, !.calls = @ + 1]
    ELSE IF Loc_closer(dj.d, best)
    THEN [best EXCEPT !.inf = FALSE, !.d_min = dj.d, !.v_min = dj.v, !.R_min = R_i,
                      !.H_min = dj.Hx, !.j_min = j, !.calls = @ + 1]
    ELSE [best EXCEPT !.calls = @ + 1]

RECURSIVE Loc_inner_loop(_, _, _, _, _)
\* for j in range(J): lines 180-193, from map line j on
Loc_inner_loop(self, z_i, R_i, j, best) ==
    IF j > Len(self.map_lines) \/ best.raised THEN best
    ELSE Loc_inner_loop(self, z_i, R_i, j + 1,
            Loc_keep_min(R_i, j, best,
                         Loc_distance(self, z_i, R_i, self.map_lines[j])))

\* mutant: d_min <= self.g**2, which accepts a distance equal to the gate
Loc_gate_le(self, best) == (~best.inf) /\ ~RLt(RMul(self.g, self.g), best.d_min)

\* d_min < self.g**2
Loc_gate(self, best) == (~best.inf) /\ RLt(best.d_min, RMul(self.g, self.g))

\* lines 196-199: the lists after observation i, given its loop variables best;
\* src_list records the (i, j) of every append
Loc_append(self, i, acc, best) ==
    IF best.raised THEN [acc EXCEPT !.raised = TRUE, !.best = best]
    ELSE IF Loc_gate(self, best)
    THEN [acc EXCEPT !.v_list = Append(@, best.v_min),
                     !.R_list = Append(@, best.R_min),
                     !.H_list = Append(@, best.H_min),
                     !.src_list = Append(@, <<i, best.j_min>>),
                     !.best = best]
    ELSE [acc EXCEPT !.best = best]

RECURSIVE Loc_outer_loop(_, _, _, _, _)
\* for i in range(I): lines 173-199, from observation i on.  d_min is reset
\* for every observation (line 176); v_min, R_min and H_min are not.
Loc_outer_loop(self, rawZ, rawR, i, acc) ==
    IF i > Len(rawR) \/ acc.raised THEN acc
    ELSE Loc_outer_loop(self, rawZ, rawR, i + 1,
            Loc_append(self, i, acc,
                       Loc_inner_loop(self, rawZ[i], rawR[i], 1,
                                      [acc.best EXCEPT !.inf = TRUE, !.d_min = Zero])))

\* the loop variables and the lists before the loops (lines 165-167)
Loc_start ==
    [v_list |-> <<>>, R_list |-> <<>>, H_list |-> <<>>, src_list |-> <<>>,
     raised |-> FALSE,
     best |-> [inf |-> TRUE, d_min |-> Zero, v_min |-> <<>>, R_min |-> <<>>,
               H_min |-> <<>>, j_min |-> 0, calls |-> 0, raised |-> FALSE]]

\* what associate_measurements returns (line 201), with the observers
Loc_return(acc) ==
    [v_list |-> acc.v_list, R_list |-> acc.R_list, H_list |-> acc.H_list,
     src_list |-> acc.src_list, calls |-> acc.best.calls, raised |-> acc.raised]

\* mutant: the predicted measurements of the J map lines are computed once,
\* ahead of the test for an empty batch or map
Loc_associate_hoisted(self, rawZ, rawR) ==
    [(IF Len(rawR) = 0 \/ Len(self.map_lines) = 0 THEN Loc_return(Loc_start)
      ELSE Loc_return(Loc_outer_loop(self, rawZ, rawR, 1, Loc_start)))
     EXCEPT !.calls = Len(self.map_lines)]

\* Localization_EKF.associate_measurements(rawZ, rawR): (v_list, R_list, H_list)
Loc_associate_measurements(self, rawZ, rawR) ==
    IF Len(rawR) = 0 \/ Len(self.map_lines) = 0 THEN Loc_return(Loc_start)
    ELSE Loc_return(Loc_outer_loop(self, rawZ, rawR, 1, Loc_start))

RECURSIVE Concatenate(_)
\* np.concatenate(v_list) and np.vstack(H_list): the items end to end
Concatenate(list) == IF list = <<>> THEN <<>> ELSE Head(list) \o Concatenate(Tail(list))

\* scipy.linalg.block_diag(*R_list) of 2x2 blocks
BlockDiag(R_list) ==
    Mat(2 * Len(R_list), 2 * Len(R_list), LAMBDA i, j :
        IF (i + 1) \div 2 = (j + 1) \div 2
        THEN R_list[(i + 1) \div 2][2 - (i % 2)][2 - (j % 2)]
        ELSE Zero)

\* lines 207-219, given a = (v_list, R_list, H_list): (z, R, H), or
\* (None, None, None) when nothing was associated (none), or the LinAlgError
\* of associate_measurements (raised)
Loc_assemble(a) ==
    IF a.raised
    THEN [raised |-> TRUE, none |-> FALSE, z |-> <<>>, R |-> <<>>, H |-> <<>>, assoc |-> a]
    ELSE IF a.v_list = <<>>
    THEN [raised |-> FALSE, none |-> TRUE, z |-> <<>>, R |-> <<>>, H |-> <<>>, assoc |-> a]
    ELSE [raised |-> FALSE, none |-> FALSE,
          z |-> Concatenate(a.v_list),
          R |-> BlockDiag(a.R_list),
          H |-> Concatenate(a.H_list),
          assoc |-> a]

\* Localization_EKF.measurement_model(rawZ, rawR)
Loc_measurement_model(self, rawZ, rawR) ==
    Loc_assemble(Loc_associate_measurements(self, rawZ, rawR))

----------------------------------------------------------------------------
(* class EKF: the two belief updates.  Each returns the belief (x, P) the  *)
(* call leaves behind and how the call ended:                              *)
(*   "updated"     returned after storing a new belief                     *)
(*   "skipped"     returned at line 48 (z is None)                         *)
(*   "ValueError"  raised by np.matmul on arrays that do not conform       *)
(*   "LinAlgError" raised by np.linalg.inv on a singular matrix            *)

\* mutant: the control noise is added without the factor dt
EKF_transition_update_nodt(self, tm, dt) ==
    LET okP == Conformable(self.P, Transpose(tm.Gx)) /\ Conformable(tm.Gx, self.P)
        okQ == Conformable(self.Q, Transpose(tm.Gu)) /\ Conformable(tm.Gu, self.Q)
        GPG == MatMul(tm.Gx, MatMul(self.P, Transpose(tm.Gx)))
        GQG == MatMul(tm.Gu, MatMul(self.Q, Transpose(tm.Gu)))
    IN  IF okP /\ okQ
        THEN [x |-> tm.g, P |-> MatAdd(GPG, GQG), ended |-> "updated"]
        ELSE [x |-> tm.g, P |-> self.P, ended |-> "ValueError"]

\* mutant: Gx . P . Gx in place of Gx . P . Gx^T
EKF_transition_update_notranspose(self, tm, dt) ==
    LET okP == Conformable(self.P, tm.Gx) /\ Conformable(tm.Gx, self.P)
        okQ == Conformable(self.Q, Transpose(tm.Gu)) /\ Conformable(tm.Gu, self.Q)
        GPG == MatMul(tm.Gx, MatMul(self.P, tm.Gx))
        GQG == Scale(dt, MatMul(tm.Gu, MatMul(self.Q, Transpose(tm.Gu))))
    IN  IF okP /\ okQ
        THEN [x |-> tm.g, P |-> MatAdd(GPG, GQG), ended |-> "updated"]
        ELSE [x |-> tm.g, P |-> self.P, ended |-> "ValueError"]

\* EKF.transition_update, lines 26-27, given (g, Gx, Gu) of the model
EKF_transition_update(self, tm, dt) ==
    LET okP == Conformable(self.P, Transpose(tm.Gx)) /\ Conformable(tm.Gx, self.P)
        okQ == Conformable(self.Q, Transpose(tm.Gu)) /\ Conformable(tm.Gu, self.Q)
        GPG == MatMul(tm.Gx, MatMul(self.P, Transpose(tm.Gx)))
        GQG == Scale(dt, MatMul(tm.Gu, MatMul(self.Q, Transpose(tm.Gu))))
    IN  IF okP /\ okQ
        THEN [x |-> tm.g, P |-> MatAdd(GPG, GQG), ended |-> "updated"]
        ELSE [x |-> tm.g, P |-> self.P, ended |-> "ValueError"]

\* the update of lines 54-57 on a measurement (z, R, H)
EKF_fuse(self, mm, sigma, inv, K) ==
    IF inv.singular
    THEN [x |-> self.x, P |-> self.P, ended |-> "LinAlgError"]
    ELSE [x |-> VecAdd(self.x, MatVec(K, mm.z)),
          P |-> MatSub(self.P, MatMul(K, MatMul(sigma, Transpose(K)))),
          ended |-> "updated"]

\* mutant: lines 47-48 left out, so that a None measurement reaches H.T
EKF_measurement_update_noskip(self, mm) ==
    IF mm.raised THEN [x |-> self.x, P |-> self.P, ended |-> "LinAlgError"]
    ELSE IF mm.none THEN [x |-> self.x, P |-> self.P, ended |-> "AttributeError"]
    ELSE LET sigma == MatAdd(MatMul(mm.H, MatMul(self.P, Transpose(mm.H))), mm.R)
             inv   == Inv(sigma)
             K     == MatMul(self.P, MatMul(Transpose(mm.H), inv.m))
         IN  EKF_fuse(self, mm, sigma, inv, K)

\* mutant: the LinAlgError of a singular sigma is caught and the update skipped
EKF_measurement_update_swallow(self, mm) ==
    IF mm.raised THEN [x |-> self.x, P |-> self.P, ended |-> "LinAlgError"]
    ELSE IF mm.none THEN [x |-> self.x, P |-> self.P, ended |-> "skipped"]
    ELSE LET sigma == MatAdd(MatMul(mm.H, MatMul(self.P, Transpose(mm.H))), mm.R)
             inv   == Inv(sigma)
             K     == MatMul(self.P, MatMul(Transpose(mm.H), inv.m))
         IN  IF inv.singular THEN [x |-> self.x, P |-> self.P, ended |-> "skipped"]
             ELSE EKF_fuse(self, mm, sigma, inv, K)

\* EKF.measurement_update, lines 47-57, given (z, R, H) of the model
EKF_measurement_update(self, mm) ==
    IF mm.raised THEN [x |-> self.x, P |-> self.P, ended |-> "LinAlgError"]
    ELSE IF mm.none THEN [x |-> self.x, P |-> self.P, ended |-> "skipped"]
    ELSE LET sigma == MatAdd(MatMul(mm.H, MatMul(self.P, Transpose(mm.H))), mm.R)
             inv   == Inv(sigma)
             K     == MatMul(self.P, MatMul(Transpose(mm.H), inv.m))
         IN  EKF_fuse(self, mm, sigma, inv, K)

----------------------------------------------------------------------------
(* The filter as a state machine: the belief and the configuration of one  *)
(* filter object, driven by a caller that makes one call at a time.        *)

VARIABLES
    x,                  \* self.x: belief mean
    P,                  \* self.P: belief covariance
    Q,                  \* self.Q: control noise covariance
    map_lines,          \* self.map_lines (Localization_EKF)
    tf_base_to_camera,  \* self.tf_base_to_camera
    g,                  \* self.g: validation gate
    ncalls,             \* number of calls made so far
    last                \* the last call: arguments, belief before it, outcome

vars == <<x, P, Q, map_lines, tf_base_to_camera, g, ncalls, last>>

\* bounds of the model
MaxCalls == 3   \* calls in one run of Spec
MaxNum   == 60  \* a run of Spec goes on while the numerators and denominators
                \* of the belief stay within MaxNum
MaxObs   == 2   \* I: observed lines in one batch
MaxMap   == 2   \* J: lines of the map

Self == [x |-> x, P |-> P, Q |-> Q, map_lines |-> map_lines,
         tf_base_to_camera |-> tf_base_to_camera, g |-> g]

HalfPi == RDiv(Pi, RInt(2))

NoAssoc == [v_list |-> <<>>, R_list |-> <<>>, H_list |-> <<>>, src_list |-> <<>>,
            calls |-> 0, raised |-> FALSE]
NoModel == [branch |-> "none", g |-> <<>>, Gx |-> <<>>, Gu |-> <<>>]
\* last, before any call.  prev is (op, branch, ended) of the call before.
NoCall  == [op |-> "none", u |-> <<>>, dt |-> Zero, rawZ |-> <<>>, rawR |-> <<>>,
            x0 |-> <<>>, P0 |-> <<>>, ended |-> "none", tm |-> NoModel,
            assoc |-> NoAssoc, prev |-> <<"none", "none", "none">>]

Summary == <<last.op, last.tm.branch, last.ended>>

\* a call of transition_update(u, dt) on a Localization_EKF
TransitionUpdate(u, dt) ==
    LET tm == Loc_transition_model(Self, u, dt)
        r  == EKF_transition_update(Self, tm, dt)
    IN  /\ x' = r.x
        /\ P' = r.P
        /\ last' = [NoCall EXCEPT !.op = "transition_update", !.u = u, !.dt = dt,
                                  !.x0 = x, !.P0 = P, !.ended = r.ended, !.tm = tm,
                                  !.prev = Summary]
        /\ ncalls' = ncalls + 1
        /\ UNCHANGED <<Q, map_lines, tf_base_to_camera, g>>

\* a call of measurement_update(rawZ, rawR) on a Localization_EKF
MeasurementUpdate(rawZ, rawR) ==
    LET mm == Loc_measurement_model(Self, rawZ, rawR)
        r  == EKF_measurement_update(Self, mm)
    IN  /\ x' = r.x
        /\ P' = r.P
        /\ last' = [NoCall EXCEPT !.op = "measurement_update", !.rawZ = rawZ,
                                  !.rawR = rawR, !.x0 = x, !.P0 = P,
                                  !.ended = r.ended, !.assoc = mm.assoc,
                                  !.prev = Summary]
        /\ ncalls' = ncalls + 1
        /\ UNCHANGED <<Q, map_lines, tf_base_to_camera, g>>

\* the (alpha, r) columns and the covariances of a batch of observed lines
ZOf(b) == Vec(Len(b), LAMBDA i : b[i][1])
ROf(b) == Vec(Len(b), LAMBDA i : b[i][2])

----------------------------------------------------------------------------
(* SpecSingle: one call on a filter just constructed, over a range of      *)
(* constructor arguments and call arguments.                                *)

X0Set  == {IntVec(<<0, 0, 0>>), <<One, Zero, HalfPi>>}
P0Set  == {Eye(3), IntMat(<<<<2, 1, 0>>, <<1, 2, 0>>, <<0, 0, 1>>>>)}
GSet   == {RInt(-2), RInt(1), RInt(2)}
TfSet  == {IntVec(<<0, 0, 0>>), IntVec(<<1, 0, 0>>)}
MapPool == <<IntVec(<<0, 2>>), IntVec(<<0, 4>>), <<HalfPi, RInt(2)>>, <<HalfPi, RInt(4)>>>>
MapSet == {SubSeq(MapPool, 1, J) : J \in 0..MaxMap}
USet   == {IntVec(<<0, 0>>), IntVec(<<1, 0>>), IntVec(<<1, 1>>)}
DtSet  == {RInt(-1), RInt(0), RInt(1), RInt(2)}
\* observed lines (z, R)
ObsSet == {<<IntVec(<<0, 3>>), Eye(2)>>,
           <<IntVec(<<1, 3>>), Eye(2)>>,
           <<IntVec(<<0, 2>>), ZeroMat(2, 2)>>}
RECURSIVE SeqsUpTo(_, _)
SeqsUpTo(S, n) ==
    IF n = 0 THEN {<<>>}
    ELSE LET shorter == SeqsUpTo(S, n - 1)
         IN  shorter \cup {Append(b, o) : b \in {c \in shorter : Len(c) = n - 1}, o \in S}
Batches == SeqsUpTo(ObsSet, MaxObs)

InitSingle ==
    /\ x \in X0Set
    /\ P \in P0Set
    /\ Q = IntMat(<<<<2, 1>>, <<1, 1>>>>)
    /\ map_lines \in MapSet
    /\ tf_base_to_camera \in TfSet
    /\ g \in GSet
    /\ ncalls = 0
    /\ last = NoCall

PredictOnce == ncalls = 0 /\ \E u \in USet, dt \in DtSet : TransitionUpdate(u, dt)
UpdateOnce  == ncalls = 0 /\ \E b \in Batches : MeasurementUpdate(ZOf(b), ROf(b))
NextSingle  == PredictOnce \/ UpdateOnce
SpecSingle  == InitSingle /\ [][NextSingle]_vars

----------------------------------------------------------------------------
(* Spec: a run of up to MaxCalls calls, predict and update in any order.   *)

Controls == {<<IntVec(<<0, 0>>), RInt(1)>>, <<IntVec(<<0, 0>>), RInt(2)>>,
             <<IntVec(<<1, 0>>), RInt(1)>>, <<IntVec(<<1, 1>>), RInt(1)>>}
Scans    == {<<>>,
             <<<<IntVec(<<0, 2>>), Eye(2)>>>>,
             <<<<IntVec(<<1, 3>>), Eye(2)>>, <<IntVec(<<0, 3>>), Eye(2)>>>>}

Init ==
    /\ x \in X0Set
    /\ P \in P0Set
    \* a 2x2 control noise, and a state-sized (3x3) one
    /\ Q \in {IntMat(<<<<2, 1>>, <<1, 1>>>>), Eye(3)}
    /\ map_lines = SubSeq(MapPool, 1, 2)
    /\ tf_base_to_camera = IntVec(<<0, 0, 0>>)
    /\ g = RInt(2)
    /\ ncalls = 0
    /\ last = NoCall

SmallRat(a)  == Abs(a[1]) <= MaxNum /\ a[2] <= MaxNum
SmallBelief  == /\ \A k \in 1..Len(x) : SmallRat(x[k])
                /\ \A i \in 1..Rows(P) : \A j \in 1..Cols(P) : SmallRat(P[i][j])
CanCall      == ncalls < MaxCalls /\ SmallBelief

Predict == CanCall /\ \E c \in Controls : TransitionUpdate(c[1], c[2])
Update  == CanCall /\ \E b \in Scans : MeasurementUpdate(ZOf(b), ROf(b))
Next    == Predict \/ Update
Spec    == Init /\ [][Next]_vars

----------------------------------------------------------------------------
(* Properties.  They speak about the last call through last: its           *)
(* arguments, the belief before it (x0, P0) and how it ended.              *)

\* the filter object as it was when the last call began
Pre == [x |-> last.x0, P |-> last.P0, Q |-> Q, map_lines |-> map_lines,
        tf_base_to_camera |-> tf_base_to_camera, g |-> g]

IsUpdate  == last.op = "measurement_update"
IsPredict == last.op = "transition_update"
NObs      == Len(last.rawR)
NMap      == Len(map_lines)
Unchanged == x = last.x0 /\ P = last.P0

\* d_ij of the last call's observation i and map line j, from the belief before it
DistOf(i, j) == Loc_distance(Pre, last.rawZ[i], last.rawR[i], map_lines[j])
AllDefined   == \A i \in 1..NObs : \A j \in 1..NMap : ~DistOf(i, j).raised
\* the smallest d_ij over the map lines (NMap > 0)
MinDist(i) ==
    CHOOSE d \in {DistOf(i, j).d : j \in 1..NMap} :
        \A j \in 1..NMap : ~RLt(DistOf(i, j).d, d)
\* the lowest map index at that distance
ArgMin(i) ==
    CHOOSE j \in 1..NMap :
        /\ DistOf(i, j).d = MinDist(i)
        /\ \A j2 \in 1..(j - 1) : DistOf(i, j2).d # MinDist(i)
GateSq     == RMul(g, g)
InGate(i)  == RLt(MinDist(i), GateSq)
NoneInGate == \A i \in 1..NObs : NMap = 0 \/ ~InGate(i)

\* C1: a measurement_update in which no observed line is accepted (every
\* best distance at or above the gate, or an empty batch, or an empty map)
\* returns without raising and leaves x and P as they were.
C1_NoMatchIsNoOp ==
    (IsUpdate /\ AllDefined /\ NoneInGate)
        => (last.ended = "skipped" /\ Unchanged)

\* an update whose observed lines all have a best distance at or above the gate
C1_Witness ==
    /\ IsUpdate /\ NObs > 0 /\ NMap > 0 /\ AllDefined /\ NoneInGate
    /\ last.ended = "skipped"

\* C3: with a non-empty map, observation i has exactly one triple in the
\* output if its smallest distance is below g^2 and none if it is at or above
\* g^2; the three lists have one length, at most I, and follow observation order.
C3_Gate ==
    (IsUpdate /\ NMap > 0 /\ AllDefined) =>
        LET a == last.assoc
            n == Len(a.src_list)
        IN  /\ Len(a.v_list) = n /\ Len(a.R_list) = n /\ Len(a.H_list) = n
            /\ n <= NObs
            /\ \A i \in 1..NObs :
                 Cardinality({k \in 1..n : a.src_list[k][1] = i})
                    = IF InGate(i) THEN 1 ELSE 0
            /\ \A k1, k2 \in 1..n : k1 < k2 => a.src_list[k1][1] < a.src_list[k2][1]

\* a batch with one line exactly at the gate (dropped) and one below it (kept)
C3_Witness ==
    /\ IsUpdate /\ NMap > 0 /\ NObs = 2 /\ AllDefined
    /\ \E i \in 1..NObs : MinDist(i) = GateSq
    /\ \E i \in 1..NObs : InGate(i)
    /\ Len(last.assoc.v_list) = 1

\* C4: the triple reported for observation i holds the innovation and the
\* Jacobian of the map line closest to it, the lowest index among equally
\* close lines, and the covariance R_i of the observation.
C4_Nearest ==
    (IsUpdate /\ NMap > 0 /\ AllDefined) =>
        LET a == last.assoc
        IN  \A k \in 1..Len(a.src_list) :
                LET i  == a.src_list[k][1]
                    pm == Loc_map_line_to_predicted_measurement(Pre, map_lines[ArgMin(i)])
                IN  /\ a.src_list[k][2] = ArgMin(i)
                    /\ a.v_list[k] = VecSub(last.rawZ[i], pm.h)
                    /\ a.H_list[k] = pm.Hx
                    /\ a.R_list[k] = last.rawR[i]

\* an accepted observation with two map lines at its smallest distance that
\* give different innovations
C4_Witness ==
    /\ IsUpdate /\ NMap > 1 /\ AllDefined
    /\ \E k \in 1..Len(last.assoc.src_list) :
         LET i == last.assoc.src_list[k][1]
         IN  \E j \in 1..NMap :
                /\ j > ArgMin(i)
                /\ DistOf(i, j).d = MinDist(i)
                /\ DistOf(i, j).v # last.assoc.v_list[k]

\* C9: with an empty batch or an empty map, associate_measurements returns
\* three empty lists and has made no call of map_line_to_predicted_measurement.
C9_EmptyInput ==
    (IsUpdate /\ (NObs = 0 \/ NMap = 0)) =>
        /\ last.assoc.v_list = <<>> /\ last.assoc.R_list = <<>> /\ last.assoc.H_list = <<>>
        /\ last.assoc.calls = 0
        /\ ~last.assoc.raised

\* an update with observed lines and an empty map
C9_Witness == IsUpdate /\ NObs > 0 /\ NMap = 0 /\ last.assoc.calls = 0

\* the determinant, by expansion along the first row
Minor(A, j) == Mat(Rows(A) - 1, Rows(A) - 1, LAMBDA r, c : A[r + 1][IF c < j THEN c ELSE c + 1])
RECURSIVE Det(_)
Det(A) ==
    IF Rows(A) = 1 THEN A[1][1]
    ELSE SumTo(Vec(Rows(A), LAMBDA j :
                   IF A[1][j] = Zero THEN Zero
                   ELSE RMul(IF j % 2 = 1 THEN A[1][j] ELSE RNeg(A[1][j]),
                             Det(Minor(A, j)))),
               Rows(A))

\* S = H.P.H^T + R of the last call, from the lists associate_measurements returned
SigmaOf ==
    LET H == Concatenate(last.assoc.H_list)
    IN  MatAdd(MatMul(H, MatMul(last.P0, Transpose(H))), BlockDiag(last.assoc.R_list))
SingularSigma ==
    /\ IsUpdate /\ ~last.assoc.raised /\ last.assoc.v_list # <<>>
    /\ Det(SigmaOf) = Zero

\* C7: a measurement_update whose innovation covariance S is singular ends
\* with a numerical error, which is not the way a no-match update ends, and
\* leaves x and P as they were.
C7_SingularSignalled ==
    SingularSigma =>
        (last.ended = "LinAlgError" /\ last.ended # "skipped" /\ Unchanged)

\* two accepted observations whose joint S is singular
C7_Witness == SingularSigma /\ Len(last.assoc.v_list) = 2 /\ last.ended = "LinAlgError"

\* C2 (as claimed): a call that did not store a whole new belief, because it
\* raised or skipped, leaves both x and P as they were before it; no call
\* replaces x and not P.
C2_Atomic ==
    (last.op # "none" /\ last.ended # "updated") => Unchanged

\* C6 (as claimed): transition_update with dt <= 0 and an update on a filter
\* with a negative gate are rejected with a precondition error and change nothing.
C6_Rejected ==
    /\ (IsPredict /\ ~RLt(Zero, last.dt))
          => (last.ended \notin {"updated", "skipped"} /\ Unchanged)
    /\ (IsUpdate /\ RLt(g, Zero))
          => (last.ended \notin {"updated", "skipped"} /\ Unchanged)

\* v^T.A.v >= 0 for every direction v with entries -1, 0, 1: the variance
\* along none of these directions is below zero
Directions(n) == [1..n -> {RInt(-1), Zero, One}]
NotBelowZero(A) ==
    \A v \in Directions(Rows(A)) : ~RLt(Dot(v, MatVec(A, v)), Zero)

\* C8: on a Localization_EKF, transition_update with u = (0, 0) and dt > 0
\* takes the straight branch with Gx the identity, leaves the mean unchanged
\* and sets the covariance to P + dt.Gu.Q.Gu^T, which is not below P in any
\* of the directions tried.
C8_ZeroVelocity ==
    (IsPredict /\ last.u = <<Zero, Zero>> /\ RLt(Zero, last.dt) /\ Rows(Q) = 2) =>
        /\ last.tm.branch = "straight"
        /\ last.tm.Gx = Eye(3)
        /\ x = last.x0
        /\ P = MatAdd(last.P0,
                      Scale(last.dt, MatMul(last.tm.Gu, MatMul(Q, Transpose(last.tm.Gu)))))
        /\ NotBelowZero(MatSub(P, last.P0))

\* a second zero-velocity predict in a row, with dt = 2 and a grown covariance
C8_Witness ==
    /\ IsPredict /\ last.u = <<Zero, Zero>> /\ last.dt = RInt(2) /\ Rows(Q) = 2
    /\ last.prev[1] = "transition_update" /\ ncalls >= 2
    /\ last.ended = "updated" /\ P # last.P0

\* C10: the belief covariance equals its transpose at all times, for symmetric
\* P0, Q and measurement covariances.
C10_Symmetric == P = Transpose(P)

\* an update that fused two observations right after a curved predict
C10_Witness ==
    /\ IsUpdate /\ last.ended = "updated" /\ Len(last.assoc.v_list) = 2
    /\ last.prev = <<"transition_update", "curved", "updated">>
    /\ P # last.P0

----------------------------------------------------------------------------
(* class SLAM_EKF.  src/ekf.py holds its skeleton only: the state layout   *)
(* (line 269), the shape of Hx and the j > 1 test (lines 274-281) and the  *)
(* flip (lines 285-287); the bodies marked TODO are completed as section   *)
(* 4.3 of the specification describes them, by analogy with                *)
(* Localization_EKF.  The belief is updated by the code of class EKF.      *)

\* J: the landmarks carried by the state (x, y, th, alpha_0, r_0, ...)
Slam_J(self) == (Len(self.x) - 3) \div 2

\* the filter seen as a Localization_EKF on the robot block self.x[:3]
Slam_robot(self) == [self EXCEPT !.x = SubSeq(self.x, 1, 3)]

\* g, Gx, Gu of the whole state, given those of the robot block (loc)
Slam_extend(self, loc) ==
    [branch |-> loc.branch,
     g  |-> loc.g \o SubSeq(self.x, 4, Len(self.x)),
     Gx |-> Mat(Len(self.x), Len(self.x), LAMBDA i, j :
                IF i <= 3 /\ j <= 3 THEN loc.Gx[i][j]
                ELSE IF i = j THEN One ELSE Zero),
     Gu |-> Mat(Len(self.x), 2, LAMBDA i, j :
                IF i <= 3 THEN loc.Gu[i][j] ELSE Zero)]

\* SLAM_EKF.transition_model(u, dt): the robot moves, the landmarks stay
Slam_transition_model(self, u, dt) ==
    Slam_extend(self, Loc_transition_model(Slam_robot(self), u, dt))

\* d h[2] / d alpha of landmark (alpha, r)
Slam_dalpha(self, alpha) ==
    RSub(RAdd(RSub(RMul(self.x[1], Sin(alpha)), RMul(self.x[2], Cos(alpha))),
              RMul(self.tf_base_to_camera[1], Sin(RSub(alpha, self.x[3])))),
         RMul(self.tf_base_to_camera[2], Cos(RSub(alpha, self.x[3]))))

\* Hx of lines 274-281 before the flip: the robot block of pm.Hx and, for
\* j > 1 only, the two columns of landmark j (j counts from 0)
Slam_Hx(self, j, pm, flip) ==
    Mat(2, Len(self.x), LAMBDA i, c :
        IF c <= 3 THEN pm.Hx[i][c]
        ELSE IF j > 1 /\ c = 3 + 2 * j + 1
        THEN (IF i = 1 THEN One ELSE RMul(flip, Slam_dalpha(self, self.x[3 + 2 * j + 1])))
        ELSE IF j > 1 /\ c = 3 + 2 * j + 2
        THEN (IF i = 1 THEN Zero ELSE flip)
        ELSE Zero)

\* -1 when normalize_line_parameters flipped the predicted line, else 1
Slam_flip(self, m) ==
    LET th   == self.x[3]
        ath  == RSub(m[1], th)
        h0   == <<RSub(ath, self.tf_base_to_camera[3]),
                  RSub(RSub(m[2], RAdd(RMul(self.x[1], Cos(m[1])), RMul(self.x[2], Sin(m[1])))),
                       RAdd(RMul(self.tf_base_to_camera[1], Cos(ath)),
                            RMul(self.tf_base_to_camera[2], Sin(ath))))>>
    IN  IF normalize_line_parameters(h0).flipped THEN RNeg(One) ELSE One

\* h and Hx of landmark m = (alpha, r) with index j
Slam_predict(self, j, m, pm) ==
    [h |-> pm.h, Hx |-> Slam_Hx(self, j, pm, Slam_flip(self, m))]

\* SLAM_EKF.map_line_to_predicted_measurement(j), j counted from 0
Slam_map_line_to_predicted_measurement(self, j) ==
    Slam_predict(self, j, SubSeq(self.x, 3 + 2 * j + 1, 3 + 2 * j + 2),
                 Loc_map_line_to_predicted_measurement(
                     Slam_robot(self), SubSeq(self.x, 3 + 2 * j + 1, 3 + 2 * j + 2)))

RECURSIVE Slam_inner_loop(_, _, _, _, _)
\* for j in range(J), from landmark j on
Slam_inner_loop(self, z_i, R_i, j, best) ==
    IF j >= Slam_J(self) \/ best.raised THEN best
    ELSE Slam_inner_loop(self, z_i, R_i, j + 1,
            Loc_keep_min(R_i, j, best,
                Loc_innovation(self, z_i, R_i,
                               Slam_map_line_to_predicted_measurement(self, j))))

RECURSIVE Slam_outer_loop(_, _, _, _, _)
\* for i in range(I), from observation i on
Slam_outer_loop(self, rawZ, rawR, i, acc) ==
    IF i > Len(rawR) \/ acc.raised THEN acc
    ELSE Slam_outer_loop(self, rawZ, rawR, i + 1,
            Loc_append(self, i, acc,
                       Slam_inner_loop(self, rawZ[i], rawR[i], 0,
                                       [acc.best EXCEPT !.inf = TRUE, !.d_min = Zero])))

\* SLAM_EKF.associate_measurements(rawZ, rawR)
Slam_associate_measurements(self, rawZ, rawR) ==
    IF Len(rawR) = 0 \/ Slam_J(self) = 0 THEN Loc_return(Loc_start)
    ELSE Loc_return(Slam_outer_loop(self, rawZ, rawR, 1, Loc_start))

\* SLAM_EKF.measurement_model(rawZ, rawR)
Slam_measurement_model(self, rawZ, rawR) ==
    Loc_assemble(Slam_associate_measurements(self, rawZ, rawR))

\* a call of transition_update(u, dt) on a SLAM_EKF
SlamTransitionUpdate(u, dt) ==
    LET tm == Slam_transition_model(Self, u, dt)
        r  == EKF_transition_update(Self, tm, dt)
    IN  /\ x' = r.x
        /\ P' = r.P
        /\ last' = [NoCall EXCEPT !.op = "transition_update", !.u = u, !.dt = dt,
                                  !.x0 = x, !.P0 = P, !.ended = r.ended, !.tm = tm,
                                  !.prev = Summary]
        /\ ncalls' = ncalls + 1
        /\ UNCHANGED <<Q, map_lines, tf_base_to_camera, g>>

\* a call of measurement_update(rawZ, rawR) on a SLAM_EKF
SlamMeasurementUpdate(rawZ, rawR) ==
    LET mm == Slam_measurement_model(Self, rawZ, rawR)
        r  == EKF_measurement_update(Self, mm)
    IN  /\ x' = r.x
        /\ P' = r.P
        /\ last' = [NoCall EXCEPT !.op = "measurement_update", !.rawZ = rawZ,
                                  !.rawR = rawR, !.x0 = x, !.P0 = P,
                                  !.ended = r.ended, !.assoc = mm.assoc,
                                  !.prev = Summary]
        /\ ncalls' = ncalls + 1
        /\ UNCHANGED <<Q, map_lines, tf_base_to_camera, g>>

----------------------------------------------------------------------------
(* SpecSLAM: one call on a SLAM_EKF just constructed with three landmarks, *)
(* the first two of them anchors, over a range of constructor arguments.   *)

\* the state indices of the anchors (landmarks 0 and 1), counted from 1
AnchorIdx == 4..7

\* landmarks (0, 2) and (pi/2, 2) as anchors, and a free landmark (0, 4)
SlamLandmarks == <<Zero, RInt(2), HalfPi, RInt(2), Zero, RInt(4)>>
SlamX0Set == {x0 \o SlamLandmarks : x0 \in X0Set}

\* the anchors known exactly, the robot and the free landmark correlated
SlamP0Exact ==
    Mat(9, 9, LAMBDA i, j :
        IF i \in AnchorIdx \/ j \in AnchorIdx THEN Zero
        ELSE IF i = j THEN RInt(2)
        ELSE IF {i, j} = {1, 9} THEN One ELSE Zero)
\* the anchors uncertain and correlated with no other entry
SlamP0Block ==
    Mat(9, 9, LAMBDA i, j :
        IF i = j THEN RInt(2)
        ELSE IF {i, j} = {4, 5} \/ {i, j} = {1, 9} THEN One ELSE Zero)
\* anchor 0 correlated with the position of the robot
SlamP0Cross ==
    Mat(9, 9, LAMBDA i, j :
        IF i = j THEN RInt(2)
        ELSE IF {i, j} = {1, 5} THEN One ELSE Zero)
SlamP0Set == {SlamP0Exact, SlamP0Block, SlamP0Cross}

InitSLAM ==
    /\ x \in SlamX0Set
    /\ P \in SlamP0Set
    /\ Q = IntMat(<<<<2, 1>>, <<1, 1>>>>)
    /\ map_lines = <<>>
    /\ tf_base_to_camera \in TfSet
    /\ g \in {RInt(1), RInt(2)}
    /\ ncalls = 0
    /\ last = NoCall

SlamPredictOnce == ncalls = 0 /\ \E u \in USet, dt \in DtSet : SlamTransitionUpdate(u, dt)
SlamUpdateOnce  == ncalls = 0 /\ \E b \in Batches : SlamMeasurementUpdate(ZOf(b), ROf(b))
NextSLAM    == SlamPredictOnce \/ SlamUpdateOnce
SpecSLAM    == InitSLAM /\ [][NextSLAM]_vars

====
